---- MODULE Spec2Model ----
(***************************************************************************)
(* Model of the smart-goal-planner backend (src/server.js, and the earlier *)
(* revision src/unnamed/part_000 of the same server).                      *)
(*                                                                         *)
(* The state is the two Firestore collections the server uses ('users',    *)
(* 'goals') and one record per HTTP request in flight or just answered.    *)
(* Node runs each handler on one thread: the code from                     *)
(* the arrival of a request (or from the resolution of an `await`) up to   *)
(* the next `await` is one atomic step.  Every `await` of a Firestore call *)
(* is a wait point, so requests interleave exactly there.  The Firestore   *)
(* call of a wait point takes effect in the step that resumes the handler. *)
(***************************************************************************)
EXTENDS Integers, FiniteSets, Sequences, TLC

\* ---------------------------------------------------------------- bounds
MaxReq   == 2   \* requests in flight (and answered, not yet forgotten)
MaxUsers == 2   \* documents ever added to 'users'
MaxGoals == 1   \* documents ever added to 'goals'

Slots   == 1..MaxReq
UserIds == 1..MaxUsers
GoalIds == 1..MaxGoals

\* ------------------------------------------------------------ JS values
UndefStr == "<undefined>"     \* a string-valued field that is absent
UndefNum == -1                \* a number-valued field that is absent

\* JavaScript's `!x` for the string and the number values the bodies carry.
FalsyStr(x) == x = UndefStr \/ x = ""
FalsyNum(x) == x = UndefNum \/ x = 0

\* new Date().toISOString(): a timestamp.  No handler reads one back, so the
\* instants are not told apart.
Stamp == "ISO-8601"

VARIABLES users, goals, nextUser, nextGoal, req

vars == <<users, goals, nextUser, nextGoal, req>>

\* --------------------------------------------------------- request inputs
\* Bodies of POST /register: {username, password, role}.
RegBodies ==
  { [username |-> "a", password |-> "p", role |-> UndefStr],
    [username |-> "b", password |-> "p", role |-> "admin"],
    [username |-> "",  password |-> "p", role |-> UndefStr] }

\* !username || !password
RegFieldsMissing(body) == FalsyStr(body.username) \/ FalsyStr(body.password)

\* role || 'user'
RoleOrUser(role) == IF FalsyStr(role) THEN "user" ELSE role

\* Bodies of POST /login: {username, password}.
LoginBodies ==
  { [username |-> "a", password |-> "p"],
    [username |-> "a", password |-> "q"],
    [username |-> "b", password |-> "p"] }

\* Bodies of POST /goals and PUT /goals/:id: {name, targetAmount, savedAmount,
\* category}: complete; complete with a saved amount of 0; category absent.
Complete  == [name |-> "n", targetAmount |-> 100, savedAmount |-> 50, category |-> "c"]
SavedZero == [name |-> "n", targetAmount |-> 100, savedAmount |-> 0,  category |-> "c"]
NoCategory == [name |-> "m", targetAmount |-> 200, savedAmount |-> 50, category |-> UndefStr]
PostBodies == {Complete, SavedZero, NoCategory}
PutBodies  == {SavedZero, NoCategory}

NoBody == [empty |-> TRUE]

\* The token is the serialisation of the three fields, in this order.
createToken(user) == <<user.id, user.username, user.role>>

\* JSON.parse(Buffer.from(token, 'base64').toString('ascii')) and the use of
\* decoded.id as a document id: throws on anything that is not such an encoding.
Decodable(token) == Len(token) = 3
Decode(token) == [id |-> token[1], username |-> token[2], role |-> token[3]]

\* Authorization headers a client can send: none, one whose token does not
\* decode, and 'Bearer <token>' for every document id with the username and role
\* of a registration: the tokens /login issues, and the same tokens forged for
\* another id.
NoHeader  == [present |-> FALSE, token |-> <<>>]
BadHeader == [present |-> TRUE,  token |-> <<>>]
Bearer(token) == [present |-> TRUE, token |-> token]
Headers ==
  {NoHeader, BadHeader} \cup
  { Bearer(createToken([id |-> i, username |-> b.username, role |-> RoleOrUser(b.role)])) :
      i \in UserIds, b \in {x \in RegBodies : ~RegFieldsMissing(x)} }

NoUser == [id |-> 0, username |-> "", role |-> ""]

Protected == {"verify", "users", "users_delete", "goals_post", "goals_get",
              "goals_put", "goals_delete", "goals_get_part_000"}
AdminOnly == {"users", "users_delete"}

Idle == [route |-> "", pc |-> "idle", header |-> NoHeader, id |-> 0,
         body |-> NoBody, user |-> NoUser, loc |-> {}, status |-> 0,
         out |-> {}, reads |-> 0, writes |-> 0]

Init ==
  /\ users = <<>>
  /\ goals = <<>>
  /\ nextUser = 1
  /\ nextGoal = 1
  /\ req = [s \in Slots |-> Idle]

\* ------------------------------------------------------ Firestore queries
\* A lookup that never misses: verifyToken without its doc.exists check.
UserExistsAlways(id) == TRUE

\* doc.exists of db.collection('users').doc(id).get()
UserExists(id) == id \in DOMAIN users

\* The existence query on the wrong field: it matches no document.
UsersNamedWrongField(username) == {u \in DOMAIN users : users[u].password = username}

\* db.collection('users').where('username', '==', username)
UsersNamed(username) == {u \in DOMAIN users : users[u].username = username}

\* ...where('username', '==', username).where('password', '==', password)
UsersMatching(username, password) ==
  {u \in DOMAIN users : users[u].username = username /\ users[u].password = password}

\* db.collection('goals').where('userId', '==', uid)
GoalsOf(uid) == {g \in DOMAIN goals : goals[g].userId = uid}

\* A document as the handlers return it: {id: doc.id, ...doc.data()}
GoalDoc(g) == [id |-> g] @@ goals[g]
UserDoc(u) == [id |-> u, username |-> users[u].username, role |-> users[u].role]

Remove(f, ids) == [k \in DOMAIN f \ ids |-> f[k]]

\* ------------------------------------------------------------ middleware
\* checkAdmin testing only that an identity is attached.
checkAdminAnyRole(user) == user.id # 0

\* checkAdmin: req.user && req.user.role === 'admin'
checkAdmin(user) == user.role = "admin"

\* verifyToken without the missing-header answer.
TokenAcceptedNoHeaderCheck(header) == ~header.present \/ Decodable(header.token)

\* verifyToken up to its await: the header is there and the token decodes.
TokenAccepted(header) == header.present /\ Decodable(header.token)

\* verifyToken taking the role from the stored document instead of the token.
AttachedStoredRole(header) ==
  [Decode(header.token) EXCEPT !.role = users[Decode(header.token).id].role]

\* verifyToken after its await: the identity attached to the request.
Attached(header) == Decode(header.token)

\* !name || !targetAmount || !savedAmount || !category
GoalFieldsMissing(body) ==
  \/ FalsyStr(body.name)
  \/ FalsyNum(body.targetAmount)
  \/ FalsyNum(body.savedAmount)
  \/ FalsyStr(body.category)

\* goalRef.update(updatedGoal) refuses a field whose value is undefined.
HasUndefined(body) ==
  \/ body.name = UndefStr
  \/ body.targetAmount = UndefNum
  \/ body.savedAmount = UndefNum
  \/ body.category = UndefStr

\* The ownership test without the comparison of userId.
NotOwnGoalExistsOnly(g, uid) == g \notin DOMAIN goals

\* !goalDoc.exists || goalDoc.data().userId !== userId
NotOwnGoal(g, uid) == g \notin DOMAIN goals \/ goals[g].userId # uid

\* res.status(code).send(out) / res.json(out): the request is answered.
Respond(r, code, out) == [r EXCEPT !.pc = "done", !.status = code, !.out = out]

Await(r, pc) == [r EXCEPT !.pc = pc]
Read(r)  == [r EXCEPT !.reads = @ + 1]
Wrote(r) == [r EXCEPT !.writes = @ + 1]

\* The route's handler from its first line to its first await (or response),
\* entered once verifyToken (and checkAdmin) called next().
Handler(r) ==
  CASE r.route = "verify" -> Respond(r, 200, r.user)
    [] r.route = "users" -> Await(r, "users_get")
    [] r.route = "users_delete" -> Await(r, "du_query")
    [] r.route = "goals_post" ->
         IF GoalFieldsMissing(r.body)
         THEN Respond(r, 400, {})
         ELSE [Await(r, "gp_add") EXCEPT !.loc =
                 r.body @@ [userId |-> r.user.id, createdAt |-> Stamp, updatedAt |-> Stamp]]
    [] r.route = "goals_get" -> Await(r, "gg_query")
    [] r.route = "goals_get_part_000" -> Await(r, "gg0_query")
    [] r.route = "goals_put" -> Await(r, "pu_get")
    [] r.route = "goals_delete" -> Await(r, "gd_get")

\* ---------------------------------------------------------------- actions
Set(s, r) == req' = [req EXCEPT ![s] = r]

\* A POST /register arrives: lines 74-82, up to the await of the query.
ArriveRegister(s) ==
  /\ req[s].pc = "idle"
  /\ \E b \in RegBodies :
       LET r == [Idle EXCEPT !.route = "register", !.body = b] IN
       Set(s, IF RegFieldsMissing(b) THEN Respond(r, 400, {}) ELSE Await(r, "reg_query"))
  /\ UNCHANGED <<users, goals, nextUser, nextGoal>>

\* A POST /login arrives: lines 103-107.
ArriveLogin(s) ==
  /\ req[s].pc = "idle"
  /\ \E b \in LoginBodies :
       Set(s, Await([Idle EXCEPT !.route = "login", !.body = b], "login_query"))
  /\ UNCHANGED <<users, goals, nextUser, nextGoal>>

\* A request to a protected route arrives: verifyToken, lines 38-49.
ArriveProtected(s) ==
  /\ req[s].pc = "idle"
  /\ \E route \in Protected, h \in Headers :
     \E id \in (IF route = "users_delete" THEN UserIds
                ELSE IF route \in {"goals_put", "goals_delete"} THEN GoalIds ELSE {0}) :
     \E b \in (IF route = "goals_post" THEN PostBodies
               ELSE IF route = "goals_put" THEN PutBodies ELSE {NoBody}) :
       LET r == [Idle EXCEPT !.route = route, !.header = h, !.id = id, !.body = b] IN
       Set(s, IF TokenAccepted(h) THEN Await(r, "vt_get") ELSE Respond(r, 401, {}))
  /\ UNCHANGED <<users, goals, nextUser, nextGoal>>

\* verifyToken resumes with the user document: lines 51-56, then checkAdmin
\* on the admin routes, then the handler up to its first await.
VerifyToken(s) ==
  /\ req[s].pc = "vt_get"
  /\ LET r == Read(req[s])
         u == [r EXCEPT !.user = Attached(r.header)] IN
     Set(s, IF ~UserExists(Decode(r.header.token).id) THEN Respond(r, 401, {})
            ELSE IF r.route \in AdminOnly /\ ~checkAdmin(u.user) THEN Respond(u, 403, {})
            ELSE Handler(u))
  /\ UNCHANGED <<users, goals, nextUser, nextGoal>>

\* /register resumes with the username query: lines 83-91.
RegisterQuery(s) ==
  /\ req[s].pc = "reg_query"
  /\ LET r == Read(req[s]) IN
     Set(s, IF UsersNamed(r.body.username) # {} THEN Respond(r, 409, {})
            ELSE Await(r, "reg_add"))
  /\ UNCHANGED <<users, goals, nextUser, nextGoal>>

\* /register resumes with the added document: lines 91-94.
RegisterAdd(s) ==
  /\ req[s].pc = "reg_add"
  /\ nextUser <= MaxUsers
  /\ LET r == Wrote(req[s])
         newUser == [username |-> r.body.username, password |-> r.body.password,
                     role |-> RoleOrUser(r.body.role)] IN
     /\ users' = users @@ (nextUser :> newUser)
     /\ Set(s, Respond([r EXCEPT !.loc = nextUser], 201, {}))
  /\ nextUser' = nextUser + 1
  /\ UNCHANGED <<goals, nextGoal>>

\* /login resumes with the query: lines 109-121.  limit(1) keeps any one of
\* the matching documents.
Login(s) ==
  /\ req[s].pc = "login_query"
  /\ LET r == Read(req[s])
         found == UsersMatching(r.body.username, r.body.password) IN
     IF found = {} THEN Set(s, Respond(r, 401, {}))
     ELSE \E u \in found : Set(s, Respond(r, 200, createToken(UserDoc(u))))
  /\ UNCHANGED <<users, goals, nextUser, nextGoal>>

\* GET /users resumes with the collection: lines 137-143.
GetUsers(s) ==
  /\ req[s].pc = "users_get"
  /\ LET list == {UserDoc(u) : u \in DOMAIN users} IN
     Set(s, Respond(Read(req[s]), 200, [users |-> list, totalUsers |-> Cardinality(list)]))
  /\ UNCHANGED <<users, goals, nextUser, nextGoal>>

\* DELETE /users/:id resumes with the user's goals: lines 156-161.
DeleteUserQuery(s) ==
  /\ req[s].pc = "du_query"
  /\ Set(s, [Await(Read(req[s]), "du_commit") EXCEPT !.loc = GoalsOf(req[s].id)])
  /\ UNCHANGED <<users, goals, nextUser, nextGoal>>

\* batch.commit() deletes the goals the query returned: line 161.
DeleteUserCommit(s) ==
  /\ req[s].pc = "du_commit"
  /\ goals' = Remove(goals, req[s].loc)
  /\ Set(s, Await(Wrote(req[s]), "du_delete"))
  /\ UNCHANGED <<users, nextUser, nextGoal>>

\* The user document is deleted and the request answered: lines 163-164.
DeleteUser(s) ==
  /\ req[s].pc = "du_delete"
  /\ users' = Remove(users, {req[s].id})
  /\ Set(s, Respond(Wrote(req[s]), 200, {}))
  /\ UNCHANGED <<goals, nextUser, nextGoal>>

\* POST /goals resumes with the added document: lines 190-191.
CreateGoal(s) ==
  /\ req[s].pc = "gp_add"
  /\ nextGoal <= MaxGoals
  /\ goals' = goals @@ (nextGoal :> req[s].loc)
  /\ Set(s, Respond(Wrote(req[s]), 201, [id |-> nextGoal] @@ req[s].loc))
  /\ nextGoal' = nextGoal + 1
  /\ UNCHANGED <<users, nextUser>>

\* GET /goals resumes with the caller's goals: lines 202-207.
GetGoals(s) ==
  /\ req[s].pc = "gg_query"
  /\ Set(s, Respond(Read(req[s]), 200, {GoalDoc(g) : g \in GoalsOf(req[s].user.id)}))
  /\ UNCHANGED <<users, goals, nextUser, nextGoal>>

\* GET /goals of part_000 resumes with the collection: lines 150-155.
GetGoalsPart000(s) ==
  /\ req[s].pc = "gg0_query"
  /\ Set(s, Respond(Read(req[s]), 200, {GoalDoc(g) : g \in DOMAIN goals}))
  /\ UNCHANGED <<users, goals, nextUser, nextGoal>>

\* PUT /goals/:id resumes with the goal document: lines 224-236.
UpdateGoalGet(s) ==
  /\ req[s].pc = "pu_get"
  /\ LET r == Read(req[s]) IN
     Set(s, IF NotOwnGoal(r.id, r.user.id) THEN Respond(r, 403, {})
            ELSE IF HasUndefined(r.body) THEN Respond(r, 500, {})
            ELSE [Await(r, "pu_update") EXCEPT !.loc = Stamp])
  /\ UNCHANGED <<users, goals, nextUser, nextGoal>>

\* goalRef.update(updatedGoal) resolves: lines 236-237.  Updating a document
\* that is no longer there rejects, which the catch answers with 500.
UpdateGoal(s) ==
  /\ req[s].pc = "pu_update"
  /\ LET r == req[s] IN
     IF r.id \in DOMAIN goals
     THEN /\ goals' = [goals EXCEPT ![r.id] =
                 [@ EXCEPT !.name = r.body.name, !.targetAmount = r.body.targetAmount,
                           !.savedAmount = r.body.savedAmount,
                           !.category = r.body.category, !.updatedAt = r.loc]]
          /\ Set(s, Respond(Wrote(r), 200, {}))
     ELSE /\ goals' = goals
          /\ Set(s, Respond(r, 500, {}))
  /\ UNCHANGED <<users, nextUser, nextGoal>>

\* DELETE /goals/:id resumes with the goal document: lines 253-257.
DeleteGoalGet(s) ==
  /\ req[s].pc = "gd_get"
  /\ LET r == Read(req[s]) IN
     Set(s, IF NotOwnGoal(r.id, r.user.id) THEN Respond(r, 403, {})
            ELSE Await(r, "gd_delete"))
  /\ UNCHANGED <<users, goals, nextUser, nextGoal>>

\* goalRef.delete() resolves: lines 257-258.
DeleteGoal(s) ==
  /\ req[s].pc = "gd_delete"
  /\ goals' = Remove(goals, {req[s].id})
  /\ Set(s, Respond(Wrote(req[s]), 200, {}))
  /\ UNCHANGED <<users, nextUser, nextGoal>>

\* A Firestore call rejects: verifyToken's catch answers 401, every handler's
\* catch answers 500.  Nothing is written.
Awaiting == {"vt_get", "reg_query", "reg_add", "login_query", "users_get",
             "du_query", "du_commit", "du_delete", "gp_add", "gg_query",
             "gg0_query", "pu_get", "pu_update", "gd_get", "gd_delete"}

StoreError(s) ==
  /\ req[s].pc \in Awaiting
  /\ Set(s, Respond(req[s], IF req[s].pc = "vt_get" THEN 401 ELSE 500, {}))
  /\ UNCHANGED <<users, goals, nextUser, nextGoal>>

\* The client has its answer; the request is forgotten.
Forget(s) ==
  /\ req[s].pc = "done"
  /\ Set(s, Idle)
  /\ UNCHANGED <<users, goals, nextUser, nextGoal>>

Next ==
  \E s \in Slots :
       \/ ArriveRegister(s)
       \/ ArriveLogin(s)
       \/ ArriveProtected(s)
       \/ VerifyToken(s)
       \/ RegisterQuery(s)
       \/ RegisterAdd(s)
       \/ Login(s)
       \/ GetUsers(s)
       \/ DeleteUserQuery(s)
       \/ DeleteUserCommit(s)
       \/ DeleteUser(s)
       \/ CreateGoal(s)
       \/ GetGoals(s)
       \/ GetGoalsPart000(s)
       \/ UpdateGoalGet(s)
       \/ UpdateGoal(s)
       \/ DeleteGoalGet(s)
       \/ DeleteGoal(s)
       \/ StoreError(s)
       \/ Forget(s)

Spec == Init /\ [][Next]_vars

\* ------------------------------------------------------------------ claims
\* The handler of slot s resumed from the read it was waiting for.
ReadResolved(s) == req'[s].reads = req[s].reads + 1

Stores == <<users, goals, nextUser, nextGoal>>

\* C1: whenever GET /goals (of either revision) has answered an authenticated
\* caller, every goal in the answer has the caller's resolved id as userId.
C1_GoalIsolation ==
  \A s \in Slots :
    (req[s].pc = "done" /\ req[s].status = 200
       /\ req[s].route \in {"goals_get", "goals_get_part_000"})
    => \A d \in req[s].out : d.userId = Decode(req[s].header.token).id

\* C2: when PUT or DELETE /goals/:id reads the goal and it is missing or owned
\* by someone other than the caller's resolved id, the answer is 403 and that
\* step changes no record; a request so answered has written nothing.
C2_NotOwnerRejected ==
  /\ [](\A s \in Slots :
          (req[s].pc = "done" /\ req[s].status = 403
             /\ req[s].route \in {"goals_put", "goals_delete"})
          => req[s].writes = 0)
  /\ [][\A s \in Slots :
          (/\ req[s].pc \in {"pu_get", "gd_get"}
           /\ ReadResolved(s)
           /\ \/ req[s].id \notin DOMAIN goals
              \/ goals[req[s].id].userId # Decode(req[s].header.token).id)
          => /\ req'[s].pc = "done"
             /\ req'[s].status = 403
             /\ req'[s].writes = 0
             /\ Stores' = Stores]_vars

\* C2 witness: a PUT or DELETE of an existing goal of another user was
\* answered 403 and the goal is still stored under its owner.
C2_Witness ==
  \E s \in Slots :
    /\ req[s].pc = "done" /\ req[s].status = 403
    /\ req[s].route \in {"goals_put", "goals_delete"}
    /\ req[s].id \in DOMAIN goals
    /\ goals[req[s].id].userId # Decode(req[s].header.token).id

\* C3: a request to a protected route without an authorization header is
\* answered 401 in the step it arrives in: it is never waiting, no identity is
\* attached, it issued no store read or write, and the stores are unchanged.
C3_NoHeader401 ==
  /\ [](\A s \in Slots :
          (req[s].route \in Protected /\ ~req[s].header.present)
          => /\ req[s].pc = "done"
             /\ req[s].status = 401
             /\ req[s].user = NoUser
             /\ req[s].reads = 0
             /\ req[s].writes = 0)
  /\ [][\A s \in Slots :
          (req[s].pc = "idle" /\ req'[s].route \in Protected /\ ~req'[s].header.present)
          => Stores' = Stores]_vars

\* C3 witness: a POST /goals with a complete body and no header was answered.
C3_Witness ==
  \E s \in Slots :
    /\ req[s].route = "goals_post" /\ req[s].body = Complete
    /\ ~req[s].header.present
    /\ req[s].pc = "done"

\* C4: a removed user document stays removed, and a verifyToken lookup that
\* runs for a decodable token carrying the id of a removed user answers 401
\* without attaching an identity or running the handler.
C4_DeletedUser401 ==
  /\ [][\A u \in UserIds :
          (u < nextUser /\ u \notin DOMAIN users) => u \notin DOMAIN users']_vars
  /\ [][\A s \in Slots :
          (/\ req[s].pc = "vt_get"
           /\ ReadResolved(s)
           /\ Decode(req[s].header.token).id < nextUser
           /\ Decode(req[s].header.token).id \notin DOMAIN users)
          => /\ req'[s].pc = "done"
             /\ req'[s].status = 401
             /\ req'[s].user = NoUser
             /\ req'[s].reads = 1 /\ req'[s].writes = 0
             /\ Stores' = Stores]_vars

\* C4 witness: the lookup ran for the token of a user since removed, and the
\* request was answered 401.
C4_Witness ==
  \E s \in Slots :
    /\ req[s].pc = "done" /\ req[s].status = 401 /\ req[s].reads = 1
    /\ Decodable(req[s].header.token)
    /\ Decode(req[s].header.token).id < nextUser
    /\ Decode(req[s].header.token).id \notin DOMAIN users

\* C5: on GET /users and DELETE /users/:id the handler runs (waits on the
\* store, or has answered 200 or 500) only for an attached role 'admin'; an
\* authenticated caller with another role is answered 403 with no list and no
\* write.
C5_RoleCheck ==
  \A s \in Slots :
    (req[s].route \in AdminOnly /\ req[s].user # NoUser)
    => IF Decode(req[s].header.token).role = "admin"
       THEN req[s].status # 403
       ELSE /\ req[s].pc = "done"
            /\ req[s].status = 403
            /\ req[s].out = {}
            /\ req[s].reads = 1 /\ req[s].writes = 0

\* C5 witness: a caller whose token says 'user' asked to delete an existing
\* user and was answered 403; the user is still there.
C5_Witness ==
  \E s \in Slots :
    /\ req[s].route = "users_delete" /\ req[s].pc = "done" /\ req[s].status = 403
    /\ req[s].user.role = "user"
    /\ req[s].id \in DOMAIN users

\* C6: when the username query of a POST /register resumes while the document
\* an earlier POST /register of the same username was answered 201 for is in
\* the store, the later request is answered 409 and adds nothing; a
\* registration answered 201 added exactly one document, with its username,
\* and one answered 409 none.
C6_RegisterTwice ==
  /\ [](\A s \in Slots :
          (req[s].pc = "done" /\ req[s].route = "register")
          => /\ req[s].status = 201 => req[s].writes = 1
             /\ req[s].status = 409 => req[s].writes = 0)
  /\ [][\A s \in Slots :
          (req[s].route = "register" /\ req'[s].status = 201 /\ req[s].status # 201)
          => /\ DOMAIN users' = DOMAIN users \cup {req'[s].loc}
             /\ req'[s].loc \notin DOMAIN users
             /\ users'[req'[s].loc].username = req[s].body.username]_vars
  /\ [][\A s, f \in Slots :
          (/\ req[f].pc = "done" /\ req[f].route = "register" /\ req[f].status = 201
           /\ req[f].loc \in DOMAIN users
           /\ req[s].pc = "reg_query" /\ ReadResolved(s)
           /\ req[s].body.username = req[f].body.username)
          => /\ req'[s].pc = "done"
             /\ req'[s].status = 409
             /\ users' = users]_vars

\* C6 witness: two registrations of one username, answered 201 and 409.
C6_Witness ==
  \E s, f \in Slots :
    /\ req[f].pc = "done" /\ req[f].route = "register" /\ req[f].status = 201
    /\ req[s].pc = "done" /\ req[s].route = "register" /\ req[s].status = 409
    /\ req[s].body.username = req[f].body.username
    /\ Cardinality(DOMAIN users) = 1

\* C7: while DELETE /users/:id stands answered 200 for user U, the store holds
\* no goal whose userId is U.
C7_CascadingDelete ==
  \A s \in Slots :
    (req[s].pc = "done" /\ req[s].route = "users_delete" /\ req[s].status = 200)
    => \A g \in DOMAIN goals : goals[g].userId # req[s].id

\* C8: an authenticated POST /goals whose body supplies all four fields is
\* answered 201 with the stored goal (id, userId, createdAt, updatedAt), and a
\* 400 is returned only when one of the four fields is missing.
C8_CreateGoal ==
  \A s \in Slots :
    (req[s].pc = "done" /\ req[s].route = "goals_post" /\ req[s].status \in {201, 400})
    => LET b == req[s].body
           supplied == /\ b.name # UndefStr /\ b.targetAmount # UndefNum
                       /\ b.savedAmount # UndefNum /\ b.category # UndefStr
       IN  /\ supplied => req[s].status = 201
           /\ req[s].status = 400 => ~supplied

\* C9: verifyToken attaches exactly what the token decodes to, whatever the
\* stored document says, so a token whose role is 'admin' and whose id is a
\* stored user is never refused by checkAdmin.
C9_ForgedRole ==
  \A s \in Slots :
    /\ req[s].user # NoUser => req[s].user = Decode(req[s].header.token)
    /\ (/\ req[s].route \in AdminOnly
        /\ Decodable(req[s].header.token)
        /\ Decode(req[s].header.token).role = "admin")
       => req[s].status # 403

\* C9 witness: a caller whose stored role is 'user' listed the users, or deleted
\* another user.
C9_Witness ==
  \E s \in Slots :
    /\ req[s].route \in AdminOnly /\ req[s].pc = "done" /\ req[s].status = 200
    /\ req[s].user.id \in DOMAIN users
    /\ users[req[s].user.id].role = "user"

\* C10: no two user documents have the same username.
C10_UniqueUsernames ==
  \A u, v \in DOMAIN users : u # v => users[u].username # users[v].username

====
